---- MODULE Spec2Model ----
(***************************************************************************)
(* Model of unsilence's interval rendering workers                         *)
(* (unsilence/lib/render_media/RenderIntervalThread.py): N worker threads  *)
(* share one task queue and one lock; each worker takes a task, runs the   *)
(* external engine on it (filtered command, then possibly the raw          *)
(* command), optionally probes the fragment and reports the outcome        *)
(* through the completion callback.                                        *)
(***************************************************************************)
EXTENDS Integers, Sequences, FiniteSets, TLC

(* ------------------------------ bounds --------------------------------- *)

NumWorkers == 2

NumTasks == 3

MaxLines == 2

Workers == 1..NumWorkers

Tasks == 1..NumTasks

NoTask == 0

NoOwner == 0

(* --------------------------- engine output ----------------------------- *)

ConvMarker == "Conversion failed!"

CfgMarker == "Error initializing complex filter"

OtherLine == "frame=1"

NL == "\n"

EscNL == "\\n"

\* What one line of the engine's combined output stream can say.
LineKinds == {ConvMarker, CfgMarker, OtherLine}

\* console_output.stdout: the bytes the engine wrote, as its lines.
Outputs == UNION {[1..n -> LineKinds] : n \in 0..MaxLines}

RECURSIVE EscapeLines(_)
\* The body of repr(bytes): every newline byte is written as the two
\* characters backslash and n, so no line break survives.
EscapeLines(out) ==
    IF out = <<>> THEN <<>>
    ELSE <<Head(out), EscNL>> \o EscapeLines(Tail(out))

\* str(console_output.stdout): the text "b'...'" as a sequence of tokens.
Str(out) == <<"b'">> \o EscapeLines(out) \o <<"'">>

RECURSIVE SplitFrom(_, _, _)
SplitFrom(text, cur, acc) ==
    IF text = <<>> THEN (IF cur = <<>> THEN acc ELSE Append(acc, cur))
    ELSE IF Head(text) = NL THEN SplitFrom(Tail(text), <<>>, Append(acc, cur))
    ELSE SplitFrom(Tail(text), Append(cur, Head(text)), acc)

\* str.splitlines(): cut at line-break characters only.
SplitLines(text) == SplitFrom(text, <<>>, <<>>)

\* "marker in text"
Contains(text, marker) == \E i \in 1..Len(text) : text[i] = marker

\* Ground truth about an output, independent of how the worker looks at it.
CarriesConv(out) == \E i \in 1..Len(out) : out[i] = ConvMarker

CarriesCfg(out) == \E i \in 1..Len(out) : out[i] = CfgMarker

\* Line 99: "Conversion failed!" in str(console_output.stdout).splitlines()[-1]
ConversionFailed(out) ==
    LET lines == SplitLines(Str(out))
    IN  Contains(lines[Len(lines)], ConvMarker)

\* Line 113: "Error initializing complex filter" in str(console_output.stdout)
ConfigError(out) == Contains(Str(out), CfgMarker)

(* ------------------------- tasks and commands -------------------------- *)

\* The interval of task t: a contiguous collection, alternating tags.
Interval(t) == [start |-> t - 1, end |-> t, is_silent |-> (t % 2 = 0)]

\* task.interval_output_file: one fragment file per task.
OutputFile(t) == t

\* The part of the engine command the retry policy is about: the trim bounds,
\* whether the filter graph is used, and the fragment path.
GenerateCommand(interval_output_file, interval, apply_filter) ==
    [ss |-> interval.start, to |-> interval.end,
     filter |-> apply_filter, out |-> interval_output_file]

(* ----------------------------- the state ------------------------------- *)

VARIABLES
    task_queue,        \* the shared FIFO of tasks
    thread_lock,       \* the worker holding the lock, or NoOwner
    should_exit,       \* [worker -> BOOLEAN], set by stop()
    pc,                \* [worker -> where the worker is in run()]
    task,              \* [worker -> the task it took, or NoTask]
    outer,             \* [worker -> console_output of the filtered call while
                       \*  the nested raw call runs]
    completed,         \* [worker -> the local variable completed]
    error,             \* [worker -> the exception that ended run(), if any]
    opts,              \* render options and whether a callback was given
    attempts,          \* [worker -> the engine invocations it has made for
                       \*  the task it holds]
    probed,            \* [worker -> the probe's exit code for that task]
    runs,              \* [task -> how many filtered and raw engine calls]
    callbacks,         \* the completion callback's calls, in arrival order
    taken,             \* [task -> the workers that took it from the queue]
    intervals,         \* Unsilence._intervals: None or the stored collection
    temp_dir,          \* whether the directory Unsilence._temp_dir exists
    last,              \* the facade call made last and how it ended
    process,           \* "running", or "exited" once the atexit hooks ran
    build              \* one call of clamp_speed or _generate_command

poolVars == <<task_queue, thread_lock, should_exit, pc, task, outer,
              completed, error, opts, attempts, probed, runs, callbacks,
              taken>>

facadeVars == <<intervals, temp_dir, last, process>>

vars == <<poolVars, facadeVars, build>>

\* Python's None, for the stored collection.
None == [is_none |-> TRUE]

\* No facade call made yet: the state __init__ leaves (lines 26-28).
NoCall ==
    [call |-> "none", result |-> "none", renderer |-> FALSE,
     engine |-> FALSE, rendered |-> None]

\* No call of the command builder in progress.
NoBuild == [fn |-> "none", state |-> "none"]

NoError == [type |-> "none"]

NoOutput == <<"none">>

NoProbe == -1

RECURSIVE Ordered(_)
Ordered(n) == IF n = 0 THEN <<>> ELSE Append(Ordered(n - 1), n)

Init ==
    /\ task_queue = Ordered(NumTasks)
    /\ thread_lock = NoOwner
    /\ should_exit = [w \in Workers |-> FALSE]
    /\ pc = [w \in Workers |-> "while"]
    /\ task = [w \in Workers |-> NoTask]
    /\ outer = [w \in Workers |-> NoOutput]
    /\ completed = [w \in Workers |-> FALSE]
    /\ error = [w \in Workers |-> NoError]
    /\ opts \in [drop_corrupted_intervals : BOOLEAN,
                 check_intervals : BOOLEAN,
                 on_task_completed : BOOLEAN]
    /\ attempts = [w \in Workers |-> <<>>]
    /\ probed = [w \in Workers |-> NoProbe]
    /\ runs = [t \in Tasks |-> [filtered |-> 0, raw |-> 0]]
    /\ callbacks = <<>>
    /\ taken = [t \in Tasks |-> <<>>]
    /\ intervals = None
    /\ temp_dir = FALSE
    /\ last = NoCall
    /\ process = "running"
    /\ build = NoBuild

(* --------------------------- _render_interval -------------------------- *)

\* RenderStep without the raw fallback: a failed filtered call is fatal.
RenderStep_NoRetry(apply_filter, out, drop_corrupted_intervals) ==
    IF ConversionFailed(out)
    THEN IF drop_corrupted_intervals THEN "return_false"
         ELSE "raise_IOError"
    ELSE IF ConfigError(out) THEN "raise_ValueError"
    ELSE "return_true"

\* RenderStep with the two tests of lines 100 and 102 in the other order: the
\* drop option is looked at on the raw path only.
RenderStep_RetryBeforeDrop(apply_filter, out, drop_corrupted_intervals) ==
    IF ConversionFailed(out)
    THEN IF apply_filter THEN "retry_raw"
         ELSE IF drop_corrupted_intervals THEN "return_false"
         ELSE "raise_IOError"
    ELSE IF ConfigError(out) THEN "raise_ValueError"
    ELSE "return_true"

\* RenderStep with line 99 matching either marker.
RenderStep_RetryOnEitherMarker(apply_filter, out, drop_corrupted_intervals) ==
    IF ConversionFailed(out) \/ ConfigError(out)
    THEN IF drop_corrupted_intervals THEN "return_false"
         ELSE IF apply_filter THEN "retry_raw"
         ELSE "raise_IOError"
    ELSE "return_true"

\* Lines 99-116 for one engine call: what the call frame does once the engine
\* has returned `out`.
RenderStep(apply_filter, out, drop_corrupted_intervals) ==
    IF ConversionFailed(out)
    THEN IF drop_corrupted_intervals THEN "return_false"
         ELSE IF apply_filter THEN "retry_raw"
         ELSE "raise_IOError"
    ELSE IF ConfigError(out) THEN "raise_ValueError"
    ELSE "return_true"

\* Lines 113-116 of the filtered call's frame, reached after the nested raw
\* call returned (its return value is not used).
AfterRetry(outer_out) ==
    IF ConfigError(outer_out) THEN "raise_ValueError" ELSE "return_true"

\* The raw call, then the rest of the filtered call's frame.
RawThenOuter(raw_out, outer_out, drop_corrupted_intervals) ==
    LET inner == RenderStep(FALSE, raw_out, drop_corrupted_intervals)
    IN  IF inner \in {"raise_IOError", "raise_ValueError"} THEN inner
        ELSE AfterRetry(outer_out)

\* Raised with the message built from interval.start twice.
Raised_StartTwice(result, interval) ==
    IF result = "raise_IOError"
    THEN [type |-> "IOError", start |-> interval.start, end |-> interval.start]
    ELSE [type |-> "ValueError"]

\* The exception object of a raise.
Raised(result, interval) ==
    IF result = "raise_IOError"
    THEN [type |-> "IOError", start |-> interval.start, end |-> interval.end]
    ELSE [type |-> "ValueError"]

\* NeedsProbe with line 56 testing check_intervals alone.
NeedsProbe_Always(is_completed) == opts.check_intervals

\* Line 56: the probe runs when the render returned True and check_intervals.
NeedsProbe(is_completed) == is_completed /\ opts.check_intervals

\* run() is back at line 42: the locals of the finished iteration are dead.
BackToWhile(w) ==
    /\ pc' = [pc EXCEPT ![w] = "while"]
    /\ task' = [task EXCEPT ![w] = NoTask]
    /\ completed' = [completed EXCEPT ![w] = FALSE]
    /\ attempts' = [attempts EXCEPT ![w] = <<>>]
    /\ probed' = [probed EXCEPT ![w] = NoProbe]

\* Lines 56-71 once `completed` is final (is_final: no probe is due).
Report(w, is_completed, seen, rc) ==
    IF opts.on_task_completed
    THEN /\ pc' = [pc EXCEPT ![w] = "callback"]
         /\ completed' = [completed EXCEPT ![w] = is_completed]
         /\ attempts' = [attempts EXCEPT ![w] = seen]
         /\ probed' = [probed EXCEPT ![w] = rc]
         /\ UNCHANGED task
    ELSE BackToWhile(w)

\* _render_interval ended with `result` in worker w, after the invocations
\* `seen`: either the exception leaves run() and ends the thread, or run()
\* goes on at line 56.
Finish(w, result, seen) ==
    IF result \in {"raise_IOError", "raise_ValueError"}
    THEN /\ pc' = [pc EXCEPT ![w] = "raised"]
         /\ error' = [error EXCEPT ![w] = Raised(result, Interval(task[w]))]
         /\ attempts' = [attempts EXCEPT ![w] = seen]
         /\ UNCHANGED <<completed, task, probed>>
    ELSE /\ UNCHANGED error
         /\ IF NeedsProbe(result = "return_true")
            THEN /\ pc' = [pc EXCEPT ![w] = "probe"]
                 /\ completed' = [completed EXCEPT ![w] = TRUE]
                 /\ attempts' = [attempts EXCEPT ![w] = seen]
                 /\ UNCHANGED <<task, probed>>
            ELSE Report(w, result = "return_true", seen, NoProbe)

\* One engine invocation as the outside sees it: the command and what the
\* output carried.
Invocation(t, apply_filter, out) ==
    [cmd |-> GenerateCommand(OutputFile(t), Interval(t), apply_filter),
     conv |-> CarriesConv(out), cfg |-> CarriesCfg(out)]

(* ------------------------------- run() --------------------------------- *)

\* While with a loop that never looks at the flag (while True).
While_IgnoresStop(w) ==
    /\ pc[w] = "while"
    /\ pc' = [pc EXCEPT ![w] = "acquire"]
    /\ UNCHANGED <<facadeVars, build>>
    /\ UNCHANGED <<task_queue, thread_lock, should_exit, task, outer,
                   completed, error, opts, attempts, probed, runs, callbacks,
                   taken>>

\* Line 42: while not self._should_exit
While(w) ==
    /\ pc[w] = "while"
    /\ pc' = [pc EXCEPT ![w] = IF should_exit[w] THEN "exited" ELSE "acquire"]
    /\ UNCHANGED <<facadeVars, build>>
    /\ UNCHANGED <<task_queue, thread_lock, should_exit, task, outer,
                   completed, error, opts, attempts, probed, runs, callbacks,
                   taken>>

\* Acquire that does not wait for the lock to be free.
Acquire_NoWait(w) ==
    /\ pc[w] = "acquire"
    /\ thread_lock' = w
    /\ pc' = [pc EXCEPT ![w] = "empty"]
    /\ UNCHANGED <<facadeVars, build>>
    /\ UNCHANGED <<task_queue, should_exit, task, outer, completed, error,
                   opts, attempts, probed, runs, callbacks, taken>>

\* Line 43: self.thread_lock.acquire() blocks while another thread holds it.
Acquire(w) ==
    /\ pc[w] = "acquire"
    /\ thread_lock = NoOwner
    /\ thread_lock' = w
    /\ pc' = [pc EXCEPT ![w] = "empty"]
    /\ UNCHANGED <<facadeVars, build>>
    /\ UNCHANGED <<task_queue, should_exit, task, outer, completed, error,
                   opts, attempts, probed, runs, callbacks, taken>>

\* Lines 45 and 70-71: the emptiness check; on an empty queue the lock is
\* released and the loop starts over.
CheckEmpty(w) ==
    /\ pc[w] = "empty"
    /\ IF task_queue # <<>>
       THEN /\ pc' = [pc EXCEPT ![w] = "get"]
            /\ UNCHANGED thread_lock
       ELSE /\ pc' = [pc EXCEPT ![w] = "while"]
            /\ thread_lock' = NoOwner
    /\ UNCHANGED <<facadeVars, build>>
    /\ UNCHANGED <<task_queue, should_exit, task, outer, completed, error,
                   opts, attempts, probed, runs, callbacks, taken>>

\* QueueAfterGet for a get() that reads the head and leaves it on the queue.
QueueAfterGet_Peek(q) == q

\* queue.Queue.get(): the queue after the head was handed out.
QueueAfterGet(q) == Tail(q)

\* Line 46: task = self.task_queue.get(); blocks while the queue is empty.
Get(w) ==
    /\ pc[w] = "get"
    /\ task_queue # <<>>
    /\ task' = [task EXCEPT ![w] = Head(task_queue)]
    /\ taken' = [taken EXCEPT ![Head(task_queue)] = Append(@, w)]
    /\ task_queue' = QueueAfterGet(task_queue)
    /\ pc' = [pc EXCEPT ![w] = "release"]
    /\ UNCHANGED <<facadeVars, build>>
    /\ UNCHANGED <<thread_lock, should_exit, outer, completed, error, opts,
                   attempts, probed, runs, callbacks>>

\* LockAfterRelease with line 47 missing: the lock is kept while rendering.
LockAfterRelease_Kept(w) == w

\* The lock's owner after line 47.
LockAfterRelease(w) == NoOwner

\* Line 47, then lines 49-93: release the lock, enter _render_interval and
\* start the engine on the filtered command.
Release(w) ==
    /\ pc[w] = "release"
    /\ thread_lock' = LockAfterRelease(w)
    /\ pc' = [pc EXCEPT ![w] = "filtered"]
    /\ UNCHANGED <<facadeVars, build>>
    /\ UNCHANGED <<task_queue, should_exit, task, outer, completed, error,
                   opts, attempts, probed, runs, callbacks, taken>>

\* runs[t] after one more engine call for task t.
Counted(t, apply_filter) ==
    [runs EXCEPT ![t] = IF apply_filter
                        THEN [@ EXCEPT !.filtered = @ + 1]
                        ELSE [@ EXCEPT !.raw = @ + 1]]

\* Lines 93-116 with apply_filter = True: the engine returns.
RunFiltered(w) ==
    /\ pc[w] = "filtered"
    /\ \E out \in Outputs :
        LET r == RenderStep(TRUE, out, opts.drop_corrupted_intervals)
            seen == Append(attempts[w], Invocation(task[w], TRUE, out))
        IN  IF r = "retry_raw"
            THEN /\ pc' = [pc EXCEPT ![w] = "raw"]
                 /\ outer' = [outer EXCEPT ![w] = out]
                 /\ attempts' = [attempts EXCEPT ![w] = seen]
                 /\ UNCHANGED <<completed, error, task, probed>>
            ELSE /\ Finish(w, r, seen)
                 /\ UNCHANGED outer
    /\ runs' = Counted(task[w], TRUE)
    /\ UNCHANGED <<facadeVars, build>>
    /\ UNCHANGED <<task_queue, thread_lock, should_exit, opts, callbacks,
                   taken>>

\* Lines 103-109: the nested call with apply_filter = False returns, and the
\* filtered call's frame runs to its end.
RunRaw(w) ==
    /\ pc[w] = "raw"
    /\ \E out \in Outputs :
        Finish(w, RawThenOuter(out, outer[w], opts.drop_corrupted_intervals),
               Append(attempts[w], Invocation(task[w], FALSE, out)))
    /\ outer' = [outer EXCEPT ![w] = NoOutput]
    /\ runs' = Counted(task[w], FALSE)
    /\ UNCHANGED <<facadeVars, build>>
    /\ UNCHANGED <<task_queue, thread_lock, should_exit, opts, callbacks,
                   taken>>

\* Lines 57-66: the probe; completed = (returncode == 0).
Probe(w) ==
    /\ pc[w] = "probe"
    /\ \E returncode \in {0, 1} :
        Report(w, returncode = 0, attempts[w], returncode)
    /\ UNCHANGED <<facadeVars, build>>
    /\ UNCHANGED <<task_queue, thread_lock, should_exit, outer, error, opts,
                   runs, callbacks, taken>>

\* Callback with the flag passed as completed instead of not completed.
Callback_FlagInverted(w) ==
    /\ pc[w] = "callback"
    /\ callbacks' = Append(callbacks,
                           [task |-> task[w], failed |-> completed[w]])
    /\ BackToWhile(w)
    /\ UNCHANGED <<facadeVars, build>>
    /\ UNCHANGED <<task_queue, thread_lock, should_exit, outer, error, opts,
                   runs, taken>>

\* Lines 68-69: self._on_task_completed(task, not completed)
Callback(w) ==
    /\ pc[w] = "callback"
    /\ callbacks' = Append(callbacks,
                           [task |-> task[w], failed |-> ~completed[w]])
    /\ BackToWhile(w)
    /\ UNCHANGED <<facadeVars, build>>
    /\ UNCHANGED <<task_queue, thread_lock, should_exit, outer, error, opts,
                   runs, taken>>

\* Lines 73-78: stop(), called from another thread at any time.
Stop(w) ==
    /\ ~should_exit[w]
    /\ should_exit' = [should_exit EXCEPT ![w] = TRUE]
    /\ UNCHANGED <<facadeVars, build>>
    /\ UNCHANGED <<task_queue, thread_lock, pc, task, outer, completed, error,
                   opts, attempts, probed, runs, callbacks, taken>>

\* One step of worker w's thread.
WorkerStep(w) ==
    \/ While(w)
    \/ Acquire(w)
    \/ CheckEmpty(w)
    \/ Get(w)
    \/ Release(w)
    \/ RunFiltered(w)
    \/ RunRaw(w)
    \/ Probe(w)
    \/ Callback(w)

Next ==
    \/ \E w \in Workers : WorkerStep(w)
    \/ \E w \in Workers : Stop(w)

Spec == Init /\ [][Next]_vars

\* The scheduling the threads get when nobody calls stop(): a thread that can
\* run is eventually run, and a thread waiting for the lock eventually gets it
\* if the lock keeps becoming free.
FairNext == \E w \in Workers : WorkerStep(w)

FairSpec ==
    /\ Init
    /\ [][FairNext]_vars
    /\ \A w \in Workers : WF_vars(WorkerStep(w)) /\ SF_vars(Acquire(w))

(* ------------------------------ the facade ----------------------------- *)

\* Bounds of the collections a caller hands to set_intervals.
MaxTime == 3

MaxIntervals == 2

\* Intervals by their bounds; the facade never reads the silent tag.
TimeSpans ==
    {s \in [start : 0..MaxTime, end : 0..MaxTime] : s.start < s.end}

\* The Intervals objects a caller can build: any list of intervals.
Collections ==
    {[interval_list |-> l] :
        l \in UNION {[1..n -> TimeSpans] : n \in 0..MaxIntervals}}

\* interval[i].end == interval[i+1].start for all adjacent pairs.
Contiguous(c) ==
    \A i \in 1..(Len(c.interval_list) - 1) :
        c.interval_list[i].end = c.interval_list[i + 1].start

\* What silence detection returns: non-empty spans from 0 on, each ending
\* where the next starts.
Detected ==
    {c \in Collections :
        /\ c.interval_list # <<>>
        /\ c.interval_list[1].start = 0
        /\ Contiguous(c)}

\* MissingIntervals for a facade without the check of lines 90 and 105.
MissingIntervals_Never(stored) == FALSE

\* Lines 90 and 105: if self._intervals is None
MissingIntervals(stored) == stored = None

\* How a facade call that returned is recorded.
Returned(name, with_engine) ==
    [call |-> name, result |-> "returned", renderer |-> FALSE,
     engine |-> with_engine, rendered |-> None]

\* Lines 91 and 106: raise ValueError(...) before anything else is done.
RaisedValueError(name) ==
    [call |-> name, result |-> "ValueError", renderer |-> FALSE,
     engine |-> FALSE, rendered |-> None]

\* The caller is inside no facade call and the interpreter has not exited.
Idle == process = "running" /\ last.result # "running"

\* Lines 50-51: self._intervals = detect_silence(self._input_file, **kwargs)
DetectSilence ==
    /\ Idle
    /\ \E c \in Detected : intervals' = c
    /\ last' = Returned("detect_silence", TRUE)
    /\ UNCHANGED <<temp_dir, process>>
    /\ UNCHANGED <<poolVars, build>>

\* Line 62: self._intervals = intervals, whatever the caller passed.
SetIntervals ==
    /\ Idle
    /\ \E c \in Collections \cup {None} : intervals' = c
    /\ last' = Returned("set_intervals", FALSE)
    /\ UNCHANGED <<temp_dir, process>>
    /\ UNCHANGED <<poolVars, build>>

\* Lines 90-93: estimate_time
EstimateTime ==
    /\ Idle
    /\ last' = IF MissingIntervals(intervals)
               THEN RaisedValueError("estimate_time")
               ELSE Returned("estimate_time", FALSE)
    /\ UNCHANGED <<intervals, temp_dir, process>>
    /\ UNCHANGED <<poolVars, build>>

\* The directory once MediaRenderer(self._temp_dir) has set up its workspace.
WorkspaceCreated == TRUE

\* Lines 105-109: render_media up to the point where the renderer works on
\* the stored collection.
RenderMedia ==
    /\ Idle
    /\ IF MissingIntervals(intervals)
       THEN /\ last' = RaisedValueError("render_media")
            /\ UNCHANGED temp_dir
       ELSE /\ last' = [call |-> "render_media", result |-> "running",
                        renderer |-> TRUE, engine |-> TRUE,
                        rendered |-> intervals]
            /\ temp_dir' = WorkspaceCreated
    /\ UNCHANGED <<intervals, process>>
    /\ UNCHANGED <<poolVars, build>>

\* WorkspaceAfterRender for a renderer that removes the workspace only when
\* the render went through.
WorkspaceAfterRender_KeptOnAbort(outcome) == outcome = "aborted"

\* Whether the workspace exists when renderer.render is left: it is removed
\* on every exit path.
WorkspaceAfterRender(outcome) == FALSE

\* Line 109 returns, or the renderer's fatal error leaves render_media.
RenderEnds ==
    /\ process = "running"
    /\ last.result = "running"
    /\ \E outcome \in {"returned", "aborted"} :
        /\ last' = [last EXCEPT !.result = outcome]
        /\ temp_dir' = WorkspaceAfterRender(outcome)
    /\ UNCHANGED <<intervals, process>>
    /\ UNCHANGED <<poolVars, build>>

\* Lines 117-118: if self._temp_dir.exists(): shutil.rmtree(self._temp_dir)
AfterCleanup(exists) == IF exists THEN FALSE ELSE exists

\* Lines 111-118: cleanup(), called by the program.
Cleanup ==
    /\ Idle
    /\ temp_dir' = AfterCleanup(temp_dir)
    /\ last' = Returned("cleanup", FALSE)
    /\ UNCHANGED <<intervals, process>>
    /\ UNCHANGED <<poolVars, build>>

\* Line 39: atexit.register(self.cleanup); the interpreter exits, at any
\* point of the session, and runs the hook.
AtExit ==
    /\ process = "running"
    /\ process' = "exited"
    /\ temp_dir' = AfterCleanup(temp_dir)
    /\ UNCHANGED <<intervals, last>>
    /\ UNCHANGED <<poolVars, build>>

FacadeNext ==
    \/ DetectSilence
    \/ SetIntervals
    \/ EstimateTime
    \/ RenderMedia
    \/ RenderEnds
    \/ Cleanup
    \/ AtExit

\* The state after Unsilence(input_file): nothing stored, no call made; the
\* worker pool of a render is left out of the session.
FacadeInit ==
    /\ Init
    /\ opts = [drop_corrupted_intervals |-> FALSE, check_intervals |-> FALSE,
               on_task_completed |-> FALSE]

\* One session of the facade, driven by any sequence of calls.
FacadeSpec == FacadeInit /\ [][FacadeNext]_vars

(* ------------------------- floating-point numbers ----------------------- *)

\* Python's float is a binary floating-point number rounded to nearest, ties
\* to even, after every operation. The model keeps the rounding and shortens
\* the significand from 53 bits to Precision bits. A number is
\* [m |-> significand, e |-> exponent], of value m * 2^(e - Precision + 1),
\* with 2^(Precision-1) <= m < 2^Precision, or Zero.
Precision == 4

RECURSIVE Pow2(_)
Pow2(n) == IF n <= 0 THEN 1 ELSE 2 * Pow2(n - 1)

Zero == [m |-> 0, e |-> 0]

\* The float nearest to (n / d) * 2^x, for integers n >= 0 and d > 0.
RECURSIVE Nearest(_, _, _)
Nearest(n, d, x) ==
    IF n = 0 THEN Zero
    ELSE IF n >= d * Pow2(Precision) THEN Nearest(n, 2 * d, x + 1)
    ELSE IF n < d * Pow2(Precision - 1) THEN Nearest(2 * n, d, x - 1)
    ELSE LET q == n \div d
             r == n % d
             up == 2 * r > d \/ (2 * r = d /\ q % 2 = 1)
             m == IF up THEN q + 1 ELSE q
         IN  IF m = Pow2(Precision)
             THEN [m |-> Pow2(Precision - 1), e |-> x + Precision]
             ELSE [m |-> m, e |-> x + Precision - 1]

\* The float of the literal n / d.
FromRatio(n, d) == Nearest(n, d, 0)

\* a / b
Div(a, b) == Nearest(a.m, b.m, a.e - b.e)

\* a - b, for a >= b
Sub(a, b) ==
    LET k == IF a.e < b.e THEN a.e ELSE b.e
    IN  Nearest(a.m * Pow2(a.e - k) - b.m * Pow2(b.e - k), 1,
                k - Precision + 1)

\* a < b
Less(a, b) ==
    LET k == IF a.e < b.e THEN a.e ELSE b.e
    IN  a.m * Pow2(a.e - k) < b.m * Pow2(b.e - k)

\* round(x, 4) as the f-string prints it, and format(x, ".4f"): the decimal
\* with four places nearest to x, ties to even, as its count of 1/10000.
Dec4(x) ==
    LET s == x.e - Precision + 1
        n == x.m * 10000
        d == Pow2(0 - s)
        q == n \div d
        r == n % d
    IN  IF s >= 0 THEN [dec4 |-> n * Pow2(s)]
        ELSE IF 2 * r > d \/ (2 * r = d /\ q % 2 = 1)
        THEN [dec4 |-> q + 1]
        ELSE [dec4 |-> q]

\* f"{x}" of a number: its shortest repr, which reads back as x.
Repr(x) == [repr |-> x]

(* --------------------- clamp_speed, _generate_command ------------------- *)

\* clamp_speed with the comparison turned round.
clamp_speed_Reversed(duration, speed, minimum_interval_duration) ==
    IF Less(minimum_interval_duration, Div(duration, speed))
    THEN Div(duration, minimum_interval_duration)
    ELSE speed

\* Lines 213-218
clamp_speed(duration, speed, minimum_interval_duration) ==
    IF Less(Div(duration, speed), minimum_interval_duration)
    THEN Div(duration, minimum_interval_duration)
    ELSE speed

\* Lines 118-139: the afade stages, joined by ",".
get_fade_filter(total_duration, interval_in_fade_duration, interval_out_fade_duration, fade_curve) ==
    (IF interval_in_fade_duration # Zero
     THEN <<[afade |-> "in", st |-> "0",
             d |-> Dec4(interval_in_fade_duration), curve |-> fade_curve]>>
     ELSE <<>>)
    \o
    (IF interval_out_fade_duration # Zero
     THEN <<[afade |-> "out",
             st |-> Dec4(Sub(total_duration, interval_out_fade_duration)),
             d |-> Dec4(interval_out_fade_duration), curve |-> fade_curve]>>
     ELSE <<>>)

\* A literal argument of the command line.
Lit(s) == [lit |-> s]

\* SelectByTag with the two branches of lines 174-179 exchanged.
SelectByTag_Swapped(is_silent, silent, audible) ==
    IF is_silent THEN audible ELSE silent

\* Lines 174-179: the silent or the audible option, by the interval's tag.
SelectByTag(is_silent, silent, audible) ==
    IF is_silent THEN silent ELSE audible

\* Lines 183-193: the stages of the filter graph, joined by ";".
ComplexFilter(fade, current_speed, current_volume, audio_only) ==
    (IF ~audio_only
     THEN <<[in |-> "[0:v]", setpts |-> Dec4(Div(FromRatio(1, 1), current_speed)),
             out |-> "[v]"]>>
     ELSE <<>>)
    \o
    <<[in |-> "[0:a]", fade |-> fade, atempo |-> Dec4(current_speed),
       volume |-> Repr(current_volume), out |-> "[a]"]>>

\* Lines 141-211: the engine's argument list.
generate_command(input_file, render_options, interval_output_file, interval, apply_filter, minimum_interval_duration) ==
    LET fade == get_fade_filter(interval.duration,
                                render_options.interval_in_fade_duration,
                                render_options.interval_out_fade_duration,
                                render_options.fade_curve)
        command == <<Lit("ffmpeg"),
                     Lit("-ss"), Repr(interval.start),
                     Lit("-to"), Repr(interval.end),
                     Lit("-i"), [path |-> input_file],
                     Lit("-vsync"), Lit("1"),
                     Lit("-async"), Lit("1"),
                     Lit("-safe"), Lit("0"),
                     Lit("-ignore_unknown"), Lit("-y")>>
        current_speed ==
            clamp_speed(interval.duration,
                        SelectByTag(interval.is_silent,
                                    render_options.silent_speed,
                                    render_options.audible_speed),
                        minimum_interval_duration)
        current_volume ==
            SelectByTag(interval.is_silent, render_options.silent_volume,
                        render_options.audible_volume)
    IN  (IF apply_filter
         THEN command
              \o <<Lit("-filter_complex"),
                   [filter |-> ComplexFilter(fade, current_speed,
                                             current_volume,
                                             render_options.audio_only)]>>
              \o (IF ~render_options.audio_only
                  THEN <<Lit("-map"), Lit("[v]")>> ELSE <<>>)
              \o <<Lit("-map"), Lit("[a]")>>
         ELSE command
              \o (IF fade # <<>> THEN <<Lit("-af"), [af |-> fade]>> ELSE <<>>)
              \o (IF render_options.audio_only THEN <<Lit("-vn")>> ELSE <<>>))
        \o <<[path |-> interval_output_file]>>

\* The numbers the calls are made with.
Floats(exponents) ==
    {[m |-> m, e |-> e] :
        m \in Pow2(Precision - 1)..(Pow2(Precision) - 1), e \in exponents}

\* Durations from 0.5 to just under 4, speeds from 1 to just under 16,
\* minimum durations from 0.125 to just under 0.5.
Durations == Floats(-1..1)

Speeds == Floats(0..3)

Minimums == Floats(-3..-2)

\* The calls of clamp_speed.
ClampCalls ==
    [fn : {"clamp_speed"}, state : {"called"}, duration : Durations,
     speed : Speeds, minimum_interval_duration : Minimums]

\* Interval objects: duration is end - start.
BuildIntervals ==
    {[start |-> s, end |-> t, duration |-> Sub(t, s), is_silent |-> b] :
        s \in {Zero, FromRatio(1, 1)},
        t \in {FromRatio(2, 1), FromRatio(5, 2)},
        b \in BOOLEAN}

\* The render options the command depends on.
RenderOptions ==
    [silent_speed : {FromRatio(6, 1), FromRatio(10, 1)},
     audible_speed : {FromRatio(1, 1), FromRatio(3, 2)},
     silent_volume : {FromRatio(1, 2)},
     audible_volume : {FromRatio(1, 1)},
     audio_only : BOOLEAN,
     interval_in_fade_duration : {Zero, FromRatio(1, 8)},
     interval_out_fade_duration : {Zero, FromRatio(1, 4)},
     fade_curve : {"tri"}]

\* The calls of _generate_command.
CommandCalls ==
    [fn : {"generate_command"}, state : {"called"},
     render_options : RenderOptions, interval : BuildIntervals,
     apply_filter : BOOLEAN,
     minimum_interval_duration : {FromRatio(1, 4), FromRatio(3, 8)}]

\* Lines 213-218 run for the call's arguments.
ClampSpeedReturns ==
    /\ build.fn = "clamp_speed"
    /\ build.state = "called"
    /\ build' = [fn |-> "clamp_speed", state |-> "returned",
                 duration |-> build.duration, speed |-> build.speed,
                 minimum_interval_duration |-> build.minimum_interval_duration,
                 result |-> clamp_speed(build.duration, build.speed,
                                        build.minimum_interval_duration)]
    /\ UNCHANGED <<poolVars, facadeVars>>

\* Lines 141-211 run for the call's arguments; the input file is "in" and
\* the fragment file "out".
GenerateCommandReturns ==
    /\ build.fn = "generate_command"
    /\ build.state = "called"
    /\ build' = [fn |-> "generate_command", state |-> "returned",
                 render_options |-> build.render_options,
                 interval |-> build.interval,
                 apply_filter |-> build.apply_filter,
                 minimum_interval_duration |-> build.minimum_interval_duration,
                 result |-> generate_command("in", build.render_options, "out",
                                build.interval, build.apply_filter,
                                build.minimum_interval_duration)]
    /\ UNCHANGED <<poolVars, facadeVars>>

\* Init with a call of one of the two functions about to run.
BuilderInit ==
    /\ task_queue = Ordered(NumTasks)
    /\ thread_lock = NoOwner
    /\ should_exit = [w \in Workers |-> FALSE]
    /\ pc = [w \in Workers |-> "while"]
    /\ task = [w \in Workers |-> NoTask]
    /\ outer = [w \in Workers |-> NoOutput]
    /\ completed = [w \in Workers |-> FALSE]
    /\ error = [w \in Workers |-> NoError]
    /\ opts = [drop_corrupted_intervals |-> FALSE, check_intervals |-> FALSE,
               on_task_completed |-> FALSE]
    /\ attempts = [w \in Workers |-> <<>>]
    /\ probed = [w \in Workers |-> NoProbe]
    /\ runs = [t \in Tasks |-> [filtered |-> 0, raw |-> 0]]
    /\ callbacks = <<>>
    /\ taken = [t \in Tasks |-> <<>>]
    /\ intervals = None
    /\ temp_dir = FALSE
    /\ last = NoCall
    /\ process = "running"
    /\ build \in ClampCalls \cup CommandCalls

BuilderNext ==
    \/ ClampSpeedReturns
    \/ GenerateCommandReturns

\* The two pure functions, on every call of the bounded sets.
BuilderSpec == BuilderInit /\ [][BuilderNext]_vars

(* ------------------------------ vocabulary ------------------------------ *)

\* _render_interval is over for the task worker w holds.
Settled(w) == pc[w] \in {"probe", "callback", "raised"}

\* The two failure classes of an engine output. A conversion failure is an
\* output with the conversion marker and without the configuration marker;
\* an output with the configuration marker is a configuration error.
ReportsConversionFailure(inv) == inv.conv /\ ~inv.cfg

ReportsConfigError(inv) == inv.cfg

Clean(inv) == ~inv.conv /\ ~inv.cfg

RawCommandOf(t) == GenerateCommand(OutputFile(t), Interval(t), FALSE)

FilteredCommandOf(t) == GenerateCommand(OutputFile(t), Interval(t), TRUE)

\* The filtered call of worker w's task reported a conversion failure while
\* drop_corrupted_intervals is off.
FilteredFailedNoDrop(w) ==
    /\ ~opts.drop_corrupted_intervals
    /\ Len(attempts[w]) >= 1
    /\ attempts[w][1].cmd = FilteredCommandOf(task[w])
    /\ ReportsConversionFailure(attempts[w][1])

(* -------------------------------- C1 ------------------------------------ *)

\* C1: when the filtered call reports a conversion failure and
\* drop_corrupted_intervals is false, the engine is invoked once more with the
\* raw command for the same interval and output file (the worker is in that
\* call, or it is the second and last invocation), and if the raw call's
\* output is clean the task does not raise and reaches the callback with
\* failed = false unless the probe ran and failed.
C1_RetrySuccess ==
    \A w \in Workers :
        FilteredFailedNoDrop(w) =>
            \/ pc[w] = "raw" /\ Len(attempts[w]) = 1
            \/ /\ Settled(w)
               /\ Len(attempts[w]) = 2
               /\ attempts[w][2].cmd = RawCommandOf(task[w])
               /\ runs[task[w]] = [filtered |-> 1, raw |-> 1]
               /\ Clean(attempts[w][2]) =>
                    /\ pc[w] # "raised"
                    /\ pc[w] = "probe" => opts.check_intervals /\ completed[w]
                    /\ pc[w] = "callback" => (completed[w] <=> probed[w] # 1)
                    /\ ~opts.check_intervals => probed[w] = NoProbe

\* A task whose filtered call failed and whose raw call was clean is about to
\* be reported as a success.
C1_Witness ==
    \E w \in Workers :
        /\ FilteredFailedNoDrop(w)
        /\ pc[w] = "callback"
        /\ Len(attempts[w]) = 2
        /\ Clean(attempts[w][2])
        /\ completed[w]

(* -------------------------------- C2 ------------------------------------ *)

\* C2: whenever the output of any attempt for a task carries the
\* filter-configuration-error marker, the task's processing has ended (once it
\* has ended at all) in the ValueError, whatever drop_corrupted_intervals is
\* and whether or not the output also carries the conversion-failure marker.
C2_ConfigErrorAlwaysFatal ==
    \A w \in Workers :
        (Settled(w) /\ \E i \in 1..Len(attempts[w]) :
                           ReportsConfigError(attempts[w][i]))
            => pc[w] = "raised" /\ error[w].type = "ValueError"

(* -------------------------------- C3 ------------------------------------ *)

\* C3: with drop_corrupted_intervals false, when both the filtered and the raw
\* call report a conversion failure, the worker's run ends in an IOError that
\* names the interval's start and end; the task reaches neither the probe nor
\* the callback.
C3_BothFailFatal ==
    \A w \in Workers :
        (/\ FilteredFailedNoDrop(w)
         /\ Len(attempts[w]) = 2
         /\ ReportsConversionFailure(attempts[w][2]))
            => /\ pc[w] = "raised"
               /\ error[w] = [type |-> "IOError",
                              start |-> Interval(task[w]).start,
                              end |-> Interval(task[w]).end]
               /\ \A i \in 1..Len(callbacks) : callbacks[i].task # task[w]

C3_Witness ==
    \E w \in Workers :
        /\ FilteredFailedNoDrop(w)
        /\ Len(attempts[w]) = 2
        /\ ReportsConversionFailure(attempts[w][2])
        /\ error[w].type = "IOError"
        /\ task[w] = 2

(* -------------------------------- C4 ------------------------------------ *)

\* The filtered call of worker w's task reported a conversion failure while
\* drop_corrupted_intervals is on.
FilteredFailedDrop(w) ==
    /\ opts.drop_corrupted_intervals
    /\ Len(attempts[w]) >= 1
    /\ ReportsConversionFailure(attempts[w][1])

\* What C4 says of a state: the dropped task sits before its callback with
\* completed = False, after one filtered call, no raw call, no probe and no
\* exception.
DroppedState(w) ==
    /\ pc[w] = "callback"
    /\ ~completed[w]
    /\ Len(attempts[w]) = 1
    /\ runs[task[w]] = [filtered |-> 1, raw |-> 0]
    /\ probed[w] = NoProbe
    /\ error[w] = NoError

\* What C4 says of the worker's next step: it delivers failed = true and
\* leaves the worker at the head of its loop.
DroppedStep(w) ==
    /\ callbacks' = Append(callbacks, [task |-> task[w], failed |-> TRUE])
    /\ pc'[w] = "while"
    /\ error'[w] = NoError

\* C4: with drop_corrupted_intervals true, a task whose filtered call reports
\* a conversion failure goes straight to the callback with failed = true: no
\* raw call, no probe, no exception; and the worker is then back at the head
\* of its loop, free to take further tasks.
C4_DropPolicy ==
    /\ [](\A w \in Workers : FilteredFailedDrop(w) => DroppedState(w))
    /\ [][\A w \in Workers :
            (FilteredFailedDrop(w) /\ pc'[w] # pc[w]) => DroppedStep(w)]_vars

\* A worker dropped a task and has since taken another one.
C4_Witness ==
    \E w \in Workers :
        /\ opts.drop_corrupted_intervals
        /\ \E i \in 1..Len(callbacks) :
              /\ callbacks[i].failed
              /\ taken[callbacks[i].task] = <<w>>
              /\ task[w] \notin {NoTask, callbacks[i].task}

(* -------------------------------- C5 ------------------------------------ *)

\* C5: an engine call whose output carries the filter-configuration-error
\* marker is the last engine call made for its task: it is the last recorded
\* attempt and the worker is not in a raw call after it.
C5_ConfigErrorNeverRetried ==
    \A w \in Workers :
        \A i \in 1..Len(attempts[w]) :
            ReportsConfigError(attempts[w][i]) =>
                i = Len(attempts[w]) /\ pc[w] # "raw"

(* -------------------------------- C6 ------------------------------------ *)

InQueue(t) == \E i \in 1..Len(task_queue) : task_queue[i] = t

\* Task t was reported as failed, or its worker's run ended in an exception.
EndedInFailure(t) ==
    \/ \E i \in 1..Len(callbacks) : callbacks[i].task = t /\ callbacks[i].failed
    \/ \E w \in Workers : pc[w] = "raised" /\ task[w] = t

\* C6: every task is taken from the queue by at most one worker and gets at
\* most one filtered call; a task still on the queue was never taken; a task
\* a worker holds was taken by that worker alone; a task that ended in a
\* failure is not on the queue.
C6_ExactlyOnce ==
    \A t \in Tasks :
        /\ Len(taken[t]) <= 1
        /\ runs[t].filtered <= 1
        /\ InQueue(t) => taken[t] = <<>> /\ runs[t] = [filtered |-> 0, raw |-> 0]
        /\ \A w \in Workers : task[w] = t => taken[t] = <<w>>
        /\ EndedInFailure(t) => ~InQueue(t)
        /\ Cardinality({i \in 1..Len(task_queue) : task_queue[i] = t}) <= 1
        /\ Cardinality({i \in 1..Len(callbacks) : callbacks[i].task = t}) <= 1

\* One task was dropped, another raised, and the third is being rendered by a
\* worker other than the one that died.
C6_Witness ==
    \E t1, t2, t3 \in Tasks : \E w1, w2 \in Workers :
        /\ w1 # w2
        /\ \E i \in 1..Len(callbacks) :
              callbacks[i].task = t1 /\ callbacks[i].failed
        /\ pc[w1] = "raised" /\ task[w1] = t2
        /\ pc[w2] = "filtered" /\ task[w2] = t3
        /\ t3 \notin {t1, t2}

(* -------------------------------- C7 ------------------------------------ *)

\* C7: a worker in an engine call, in the probe or in the callback does not
\* hold the lock; the lock's holder is between its acquire and its release,
\* at the emptiness check or the dequeue.
C7_LockDiscipline ==
    \A w \in Workers :
        /\ pc[w] \in {"filtered", "raw", "probe", "callback"}
              => thread_lock # w
        /\ thread_lock = w <=> pc[w] \in {"empty", "get", "release"}

\* Two workers are in engine calls at the same time, filtered and raw.
C7_Witness ==
    \E w1, w2 \in Workers :
        /\ w1 # w2
        /\ pc[w1] = "filtered"
        /\ pc[w2] = "raw"
        /\ thread_lock = NoOwner

(* -------------------------------- C8 ------------------------------------ *)

\* C8: once some worker's run has ended in a fatal error, no worker takes a
\* further task from the queue.
C8_FatalStopsConsumption ==
    [][(\E w \in Workers : pc[w] = "raised") =>
          /\ taken' = taken
          /\ task_queue' = task_queue]_vars

(* -------------------------------- C9 ------------------------------------ *)

\* Task t has reached a terminal outcome: it left the queue, and the worker
\* that took it is through with it (reported it, or died on it).
Terminal(t) ==
    /\ ~InQueue(t)
    /\ \A w \in Workers : task[w] = t => pc[w] = "raised"

\* C9: with no stop requested and fair scheduling, eventually every task has
\* been taken and has reached a terminal outcome.
C9_EveryTaskTerminates == <>(\A t \in Tasks : Terminal(t))

(* -------------------------------- C10 ----------------------------------- *)

\* Worker w holds a task it took from the queue.
InFlight(w) == pc[w] \in {"release", "filtered", "raw", "probe", "callback"}

\* C10: stop() changes nothing of a worker but its flag; a worker told to
\* stop while it holds a task carries on with that task (engine calls, probe,
\* callback) and comes back to the head of its loop only through the callback
\* for that task, when one is registered, or dies on the task's own fatal
\* error; at the head of its loop it exits; so it never takes another task.
C10_CooperativeStop ==
    [][\A w \in Workers :
          /\ should_exit[w] => should_exit'[w]
          /\ should_exit'[w] # should_exit[w] =>
                /\ pc' = pc /\ task' = task /\ attempts' = attempts
                /\ callbacks' = callbacks /\ task_queue' = task_queue
          /\ (should_exit[w] /\ InFlight(w)) =>
                /\ InFlight(w)' \/ pc'[w] \in {"while", "raised"}
                /\ task'[w] \in {task[w], NoTask}
                /\ taken' = taken \/ task'[w] = task[w]
                /\ (pc'[w] = "while" /\ opts.on_task_completed) =>
                      /\ pc[w] = "callback"
                      /\ callbacks' =
                           Append(callbacks, [task |-> task[w],
                                              failed |-> ~completed[w]])
          /\ (should_exit[w] /\ pc[w] = "while") =>
                pc'[w] \in {"while", "exited"}
          /\ pc[w] = "exited" => pc'[w] = "exited"]_vars

\* A worker was told to stop, reported the task it held and exited, leaving
\* tasks on the queue.
C10_Witness ==
    \E w \in Workers :
        /\ should_exit[w]
        /\ pc[w] = "exited"
        /\ task_queue # <<>>
        /\ \E i \in 1..Len(callbacks) : taken[callbacks[i].task] = <<w>>

(* -------------------------------- C11 ----------------------------------- *)

\* _render_interval returned True for the task worker w holds: it did not
\* return False at line 101 (an exception would have ended run()).
NominalSuccess(w) ==
    /\ pc[w] \in {"probe", "callback"}
    /\ ~(opts.drop_corrupted_intervals /\ attempts[w][1].conv)

\* What C11 says of a state: the worker is in the probe only with
\* check_intervals set and a render that returned True; before the callback
\* the probe has run exactly when both hold, and completed is then the
\* probe's verdict; a probe never comes with an exception or with an engine
\* call beyond the recorded ones.
ProbeState(w) ==
    /\ pc[w] = "probe" =>
          opts.check_intervals /\ NominalSuccess(w) /\ probed[w] = NoProbe
    /\ pc[w] = "callback" =>
          /\ probed[w] # NoProbe <=> opts.check_intervals /\ NominalSuccess(w)
          /\ probed[w] # NoProbe => (completed[w] <=> probed[w] = 0)
    /\ probed[w] # NoProbe =>
          /\ pc[w] = "callback"
          /\ error[w] = NoError
          /\ runs[task[w]].filtered + runs[task[w]].raw = Len(attempts[w])

\* What C11 says of a step: leaving the probe makes no engine call and raises
\* nothing; the callback after a failed probe is called with failed = true.
ProbeStep(w) ==
    /\ (pc[w] = "probe" /\ pc'[w] # "probe") =>
          /\ runs' = runs
          /\ error' = error
          /\ pc'[w] \in {"callback", "while"}
    /\ (pc[w] = "callback" /\ probed[w] = 1 /\ pc'[w] # "callback") =>
          /\ callbacks' = Append(callbacks, [task |-> task[w], failed |-> TRUE])
          /\ runs' = runs
          /\ error' = error
          /\ pc'[w] = "while"

\* C11: the probe runs exactly when check_intervals is set and the render
\* returned True (after the filtered call or after the raw fallback); a failed
\* probe makes the outcome failed, is followed by no engine call and no
\* exception, and reaches the callback as failed = true.
C11_ProbePolicy ==
    /\ [](\A w \in Workers : ProbeState(w))
    /\ [][\A w \in Workers : ProbeStep(w)]_vars

\* A task rendered by the raw fallback failed its probe and was reported as
\* failed, with dropping off.
C11_Witness ==
    \E w \in Workers :
        /\ pc[w] = "callback"
        /\ probed[w] = 1
        /\ Len(attempts[w]) = 2
        /\ ~opts.drop_corrupted_intervals
        /\ \E i \in 1..Len(callbacks) : callbacks[i].failed

(* -------------------------------- C12 ----------------------------------- *)

\* The orchestrator's side of the callback: the tasks reported with
\* failed = false, in the order their callbacks arrived.
CompletedTasks(log) ==
    LET kept == SelectSeq(log, LAMBDA c : ~c.failed)
    IN  [i \in 1..Len(kept) |-> kept[i].task]

RECURSIVE InsertByOrdinal(_, _)
\* t put into a list that is ordered by ordinal index.
InsertByOrdinal(t, sorted) ==
    IF sorted = <<>> THEN <<t>>
    ELSE IF t <= Head(sorted) THEN <<t>> \o sorted
    ELSE <<Head(sorted)>> \o InsertByOrdinal(t, Tail(sorted))

RECURSIVE SortByOrdinal(_)
SortByOrdinal(tasks) ==
    IF tasks = <<>> THEN <<>>
    ELSE InsertByOrdinal(Head(tasks), SortByOrdinal(Tail(tasks)))

\* FragmentList taken in callback arrival order.
FragmentList_ArrivalOrder ==
    [i \in 1..Len(CompletedTasks(callbacks)) |->
        OutputFile(CompletedTasks(callbacks)[i])]

\* The fragment files handed to concatenation: the completed tasks' files,
\* re-sorted by ordinal index.
FragmentList ==
    LET sorted == SortByOrdinal(CompletedTasks(callbacks))
    IN  [i \in 1..Len(sorted) |-> OutputFile(sorted[i])]

C18_BoundedRetry ==
    /\ \A t \in Tasks :
          /\ runs[t].filtered <= 1
          /\ runs[t].raw <= runs[t].filtered
    /\ \A w \in Workers :
          /\ Len(attempts[w]) <= 2
          /\ pc[w] = "filtered" => attempts[w] = <<>> /\ runs[task[w]].filtered = 0
          /\ pc[w] = "raw" =>
                /\ Len(attempts[w]) = 1
                /\ runs[task[w]] = [filtered |-> 1, raw |-> 0]
          /\ (pc[w] = "raw" \/ Len(attempts[w]) = 2) =>
                /\ attempts[w][1].cmd = FilteredCommandOf(task[w])
                /\ attempts[w][1].conv
                /\ ~opts.drop_corrupted_intervals
          /\ Len(attempts[w]) = 2 =>
                /\ attempts[w][2].cmd = RawCommandOf(task[w])
                /\ pc[w] \in {"probe", "callback", "raised"}
                /\ runs[task[w]] = [filtered |-> 1, raw |-> 1]
                /\ attempts[w][2].conv => pc[w] = "raised"

\* The raw fallback failed too: two engine calls were made and the worker's
\* run has ended.
C18_Witness ==
    \E w \in Workers :
        /\ Len(attempts[w]) = 2
        /\ attempts[w][2].conv
        /\ pc[w] = "raised"
        /\ runs[task[w]] = [filtered |-> 1, raw |-> 1]

(* -------------------------------- C19 ----------------------------------- *)

\* The worker that took task t is through with it.
DoneWith(t) ==
    /\ taken[t] # <<>>
    /\ \A w \in Workers : task[w] = t => pc[w] = "raised"

CallbacksFor(t) == {i \in 1..Len(callbacks) : callbacks[i].task = t}

\* C19: where a callback is registered, a task is never reported twice, and
\* once the worker that took it is through with it, it has been reported
\* exactly once.
C19_OutcomeReported ==
    opts.on_task_completed =>
        \A t \in Tasks :
            /\ Cardinality(CallbacksFor(t)) <= 1
            /\ DoneWith(t) => Cardinality(CallbacksFor(t)) = 1

(* -------------------------------- C20 ----------------------------------- *)

LockSection == {"empty", "get", "release"}

\* C20: at most one worker is between acquire and release, and it is the
\* lock's owner; a worker at the dequeue finds the queue non-empty, so get()
\* returns at once; a worker whose run has ended, by stop() or by an
\* exception, does not own the lock; so whoever owns the lock has a step to
\* take that leads to its release.
C20_LockNeverLeaked ==
    /\ Cardinality({w \in Workers : pc[w] \in LockSection}) <= 1
    /\ \A w \in Workers :
          /\ pc[w] \in LockSection <=> thread_lock = w
          /\ pc[w] = "get" => task_queue # <<>>
          /\ pc[w] \in {"exited", "raised"} => thread_lock # w
    /\ thread_lock # NoOwner => ENABLED WorkerStep(thread_lock)

\* One worker died on a fatal error, the other exited after stop(), a third
\* state of the lock is seen: a live worker holds it at the dequeue.
C20_Witness ==
    \E w1, w2 \in Workers :
        /\ pc[w1] = "raised"
        /\ thread_lock = w2
        /\ pc[w2] = "get"
        /\ Len(task_queue) = 1

(* --------------------------------- C13 --------------------------------- *)

\* render_media was left, by returning or by the renderer's fatal error.
RenderEnded == last.call = "render_media" /\ last.result \in {"returned", "aborted"}

\* C13: after render_media ends normally and after it ends by a forced abort
\* (fatal error), the temporary workspace directory no longer exists; and
\* once the interpreter has exited the directory does not exist either.
C13_WorkspaceCleanup ==
    /\ RenderEnded => ~temp_dir
    /\ process = "exited" => ~temp_dir

\* A render was aborted by a fatal error and its workspace is gone.
C13_Witness ==
    /\ last.call = "render_media"
    /\ last.result = "aborted"
    /\ last.rendered # None
    /\ process = "running"
    /\ ~temp_dir

(* --------------------------------- C14 --------------------------------- *)

\* This step is a call of estimate_time or render_media.
PreconditionedCall ==
    /\ last.result # "running"
    /\ last' # last
    /\ last'.call \in {"estimate_time", "render_media"}

\* C14: estimate_time and render_media raise ValueError at once whenever the
\* stored collection is None, and then no renderer is created, no engine is
\* invoked and the session state is left as it was; with a collection stored
\* they do not raise this error.
C14_MissingIntervals ==
    /\ [](last.result = "ValueError" =>
            /\ intervals = None
            /\ ~last.renderer
            /\ ~last.engine
            /\ last.rendered = None)
    /\ [][PreconditionedCall =>
            IF intervals = None
            THEN /\ last'.result = "ValueError"
                 /\ ~last'.renderer
                 /\ ~last'.engine
                 /\ intervals' = intervals
                 /\ temp_dir' = temp_dir
                 /\ process' = process
            ELSE last'.result # "ValueError"]_vars

\* render_media was refused in a session where nothing is stored.
C14_Witness ==
    /\ last = RaisedValueError("render_media")
    /\ intervals = None
    /\ ~temp_dir

(* --------------------------------- C16 --------------------------------- *)

\* C16: every interval collection the renderer is given is contiguous: a
\* non-contiguous collection is never rendered.
C16_ContiguityInvariant ==
    last.rendered # None => Contiguous(last.rendered)

(* --------------------------------- C15 --------------------------------- *)

\* A call of clamp_speed has returned.
Clamped == build.fn = "clamp_speed" /\ build.state = "returned"

\* The float just below x.
Pred(x) ==
    IF x.m = Pow2(Precision - 1)
    THEN [m |-> Pow2(Precision) - 1, e |-> x.e - 1]
    ELSE [m |-> x.m - 1, e |-> x.e]

\* x is a power of two.
PowerOfTwo(x) == x.m = Pow2(Precision - 1)

\* The value clamp_speed is to return: speed when duration / speed is not
\* below the minimum, duration / minimum otherwise; and the two calls the
\* specification lists.
ClampedValue ==
    LET d == build.duration
        s == build.speed
        mn == build.minimum_interval_duration
    IN  /\ ~Less(Div(d, s), mn) => build.result = s
        /\ Less(Div(d, s), mn) => build.result = Div(d, mn)
        /\ (d = FromRatio(1, 1) /\ s = FromRatio(10, 1) /\ mn = FromRatio(1, 4))
               => build.result = FromRatio(4, 1)
        /\ (d = FromRatio(1, 1) /\ s = FromRatio(2, 1) /\ mn = FromRatio(1, 4))
               => build.result = FromRatio(2, 1)

\* C15 as stated: clamp_speed returns speed unchanged when duration / speed
\* >= min_duration and duration / min_duration otherwise, so that duration
\* divided by the returned speed is never below min_duration.
C15_ClampSpeed_AsStated ==
    Clamped =>
        /\ ClampedValue
        /\ ~Less(Div(build.duration, build.result),
                 build.minimum_interval_duration)

\* C15, amended: clamp_speed returns speed unchanged when duration / speed
\* >= min_duration and duration / min_duration otherwise, the quotients
\* being the rounded ones the program computes; duration divided by the
\* returned speed is never below the float just under min_duration, and is
\* never below min_duration itself when min_duration is a power of two.
C15_ClampSpeed ==
    Clamped =>
        /\ ClampedValue
        /\ ~Less(Div(build.duration, build.result),
                 Pred(build.minimum_interval_duration))
        /\ PowerOfTwo(build.minimum_interval_duration) =>
               ~Less(Div(build.duration, build.result),
                     build.minimum_interval_duration)

\* clamp_speed(1.0, 10.0, 0.25) has returned 4.0.
C15_Witness ==
    /\ Clamped
    /\ build.duration = FromRatio(1, 1)
    /\ build.speed = FromRatio(10, 1)
    /\ build.minimum_interval_duration = FromRatio(1, 4)
    /\ build.result = FromRatio(4, 1)
    /\ build.result # build.speed

(* --------------------------------- C17 --------------------------------- *)

\* A call of _generate_command has returned.
Generated == build.fn = "generate_command" /\ build.state = "returned"

\* The positions of the command that hold a filter graph.
FilterArgs(cmd) == {k \in 1..Len(cmd) : "filter" \in DOMAIN cmd[k]}

\* The command has the two arguments a, b next to each other.
HasPair(cmd, a, b) ==
    \E k \in 1..(Len(cmd) - 1) : cmd[k] = Lit(a) /\ cmd[k + 1] = Lit(b)

\* The stages of graph g that scale video timestamps, and those that scale
\* the audio tempo.
VideoStages(g) == {k \in 1..Len(g) : "setpts" \in DOMAIN g[k]}

AudioStages(g) == {k \in 1..Len(g) : "atempo" \in DOMAIN g[k]}

\* The command trims the source to [interval.start, interval.end].
Trims(cmd, interval) ==
    /\ cmd[2] = Lit("-ss")
    /\ cmd[3] = Repr(interval.start)
    /\ cmd[4] = Lit("-to")
    /\ cmd[5] = Repr(interval.end)

\* The filtered command for the interval: the tag's speed, clamped, and the
\* tag's volume in the audio stage; the video stage and the video map unless
\* audio_only.
FilteredAsTagged(cmd, interval, o, minimum) ==
    LET speed == clamp_speed(interval.duration,
                             IF interval.is_silent THEN o.silent_speed
                             ELSE o.audible_speed,
                             minimum)
        volume == IF interval.is_silent THEN o.silent_volume
                  ELSE o.audible_volume
    IN  /\ Cardinality(FilterArgs(cmd)) = 1
        /\ \A k \in FilterArgs(cmd) :
            LET g == cmd[k].filter
            IN  /\ cmd[k - 1] = Lit("-filter_complex")
                /\ Cardinality(AudioStages(g)) = 1
                /\ \A a \in AudioStages(g) :
                       /\ g[a].atempo = Dec4(speed)
                       /\ g[a].volume = Repr(volume)
                /\ Cardinality(VideoStages(g)) = IF o.audio_only THEN 0 ELSE 1
                /\ \A v \in VideoStages(g) :
                       g[v].setpts = Dec4(Div(FromRatio(1, 1), speed))
        /\ HasPair(cmd, "-map", "[a]")
        /\ HasPair(cmd, "-map", "[v]") <=> ~o.audio_only

\* The raw command: no filter graph, no map, and nothing but fades in the
\* audio filter.
RawUnchanged(cmd) ==
    /\ FilterArgs(cmd) = {}
    /\ \A k \in 1..Len(cmd) :
        /\ cmd[k] # Lit("-filter_complex")
        /\ cmd[k] # Lit("-map")
        /\ "af" \in DOMAIN cmd[k] =>
               \A j \in 1..Len(cmd[k].af) : "afade" \in DOMAIN cmd[k].af[j]

\* C17: the filtered command uses silent_speed and silent_volume when
\* interval.is_silent and audible_speed and audible_volume otherwise (the
\* speed after clamp_speed), omits the video stage and the video map when
\* audio_only; the filtered and the raw command both trim the source to
\* [interval.start, interval.end]; the raw command carries no speed or volume
\* change.
C17_CommandByTag ==
    Generated =>
        /\ Trims(build.result, build.interval)
        /\ IF build.apply_filter
           THEN FilteredAsTagged(build.result, build.interval,
                                 build.render_options,
                                 build.minimum_interval_duration)
           ELSE RawUnchanged(build.result)

\* The filtered command of a silent one-second interval at silent_speed 10,
\* clamped to 4, with video.
C17_Witness ==
    /\ Generated
    /\ build.apply_filter
    /\ build.interval.is_silent
    /\ build.interval.duration = FromRatio(1, 1)
    /\ build.render_options.silent_speed = FromRatio(10, 1)
    /\ build.minimum_interval_duration = FromRatio(1, 4)
    /\ ~build.render_options.audio_only
    /\ \E k \in FilterArgs(build.result) :
        /\ Len(build.result[k].filter) = 2
        /\ build.result[k].filter[2].atempo = Dec4(FromRatio(4, 1))
        /\ build.result[k].filter[2].volume = Repr(FromRatio(1, 2))

====
